---- MODULE Spec2Model ----
(***************************************************************************)
(* Model of the Goldbach-mirror numerics:                                  *)
(*   goldbach_scanner_v2.py  - sieve, ordered Goldbach count, conduit      *)
(*                             (wormhole) factor, orbit class, inline      *)
(*                             discriminant check                          *)
(*   verify_discriminant.py  - compute_discriminant, ord_p and the three   *)
(*                             verification loops                          *)
(* Both programs are sequential; each is a state machine over a program   *)
(* counter pc.  Spec is one run of the scanner, SpecVerify one test case   *)
(* of the verifier.  The scan range and the test vectors, which the source *)
(* fixes as literals, are drawn from bounded sets.                         *)
(*                                                                         *)
(* Python integers are unbounded.  Values that stay small are native       *)
(* integers; the discriminant and the closed form are carried as           *)
(* sign-and-magnitude limb sequences (PyInt), so nothing wraps.            *)
(* The float "factor" of wormhole_factor is carried as an exact reduced    *)
(* rational: float rounding and the log-based prediction are not modelled. *)
(***************************************************************************)
EXTENDS Integers, Sequences, FiniteSets, TLC

VARIABLES
    pc, err, mode,
    START_2N, RANGE_SIZE, limit,
    is_prime, si, primes,
    n, count, pidx,
    factor, temp, wf_limit, widx, wf, results,
    N, p, q, r,
    roots, di, dj, disc, formula, match,
    ord_n, ord_d, ord_v, ord_n0, ord_res, ord_to,
    v_r, v_N, expected, skipped, uresults, uniform

vars == << pc, err, mode, START_2N, RANGE_SIZE, limit, is_prime, si, primes,
           n, count, pidx, factor, temp, wf_limit, widx, wf, results,
           N, p, q, r, roots, di, dj, disc, formula, match,
           ord_n, ord_d, ord_v, ord_n0, ord_res, ord_to,
           v_r, v_N, expected, skipped, uresults, uniform >>

cfgVars   == << START_2N, RANGE_SIZE, limit >>
sieveVars == << is_prime, si, primes >>
countVars == << n, count, pidx >>
wfVars    == << factor, temp, wf_limit, widx, wf >>
caseVars  == << N, p, q, r >>
discVars  == << roots, di, dj, disc, formula, match >>
ordVars   == << ord_n, ord_d, ord_v, ord_n0, ord_res, ord_to >>
v51Vars   == << v_r, v_N, expected, skipped, uresults, uniform >>

(***************************************************************************)
(* Bounds of the model                                                     *)
(***************************************************************************)
MaxStart    == 30
MaxNegStart == 2
MaxRange    == 3
MaxN        == 9
MaxNegN     == 2
MaxP        == 17
MaxNegP     == 2
MaxR        == 5

(***************************************************************************)
(* Arithmetic used to state the properties                                 *)
(***************************************************************************)
IsPrime(k) == k >= 2 /\ \A d \in 2..(k - 1) : k % d # 0

Abs(k) == IF k < 0 THEN -k ELSE k

RECURSIVE GCD(_, _)
GCD(a, b) == IF b = 0 THEN a ELSE GCD(b, a % b)

RECURSIVE Valuation(_, _)
Valuation(k, d) == IF k % d # 0 THEN 0 ELSE 1 + Valuation(k \div d, d)

RECURSIVE IsPow2(_)
IsPow2(k) == IF k = 1 THEN TRUE
             ELSE IF k < 1 \/ k % 2 # 0 THEN FALSE ELSE IsPow2(k \div 2)

(***************************************************************************)
(* Exact rationals <<num, den>> in lowest terms                            *)
(***************************************************************************)
RatOne == << 1, 1 >>

RatMul(f, a, b) ==
    LET x == f[1] * a
        y == f[2] * b
        g == GCD(Abs(x), Abs(y))
    IN  << x \div g, y \div g >>

RECURSIVE HLProd(_)
HLProd(S) ==
    IF S = {} THEN RatOne
    ELSE LET k == CHOOSE k \in S : TRUE
         IN  RatMul(HLProd(S \ {k}), k - 1, k - 2)

\* prod over the distinct odd primes k dividing m/2 of (k-1)/(k-2)
SingularSeries(m) ==
    HLProd({ k \in 3..m : IsPrime(k) /\ (m \div 2) % k = 0 })

(***************************************************************************)
(* Python int as sign and magnitude; magnitude is a little-endian limb     *)
(* sequence without leading zero limbs (zero is the empty sequence)        *)
(***************************************************************************)
Base == 1000

RECURSIVE Norm(_)
Norm(s) == IF s = << >> THEN s
           ELSE IF s[Len(s)] = 0 THEN Norm(SubSeq(s, 1, Len(s) - 1)) ELSE s

RECURSIVE ToMag(_)
ToMag(k) == IF k = 0 THEN << >> ELSE << k % Base >> \o ToMag(k \div Base)

ToPy(k) == [neg |-> k < 0, mag |-> ToMag(Abs(k))]

RECURSIVE MagAdd(_, _, _)
MagAdd(a, b, c) ==
    IF a = << >> /\ b = << >> THEN ToMag(c)
    ELSE LET x == IF a = << >> THEN 0 ELSE Head(a)
             y == IF b = << >> THEN 0 ELSE Head(b)
             t == x + y + c
         IN  << t % Base >>
             \o MagAdd(IF a = << >> THEN a ELSE Tail(a),
                       IF b = << >> THEN b ELSE Tail(b), t \div Base)

RECURSIVE MagMulLimb(_, _, _)
MagMulLimb(a, m, c) ==
    IF a = << >> THEN ToMag(c)
    ELSE LET t == Head(a) * m + c
         IN  << t % Base >> \o MagMulLimb(Tail(a), m, t \div Base)

RECURSIVE MagMul(_, _)
MagMul(a, b) ==
    IF a = << >> \/ b = << >> THEN << >>
    ELSE LET rest == MagMul(a, Tail(b))
             hi   == IF rest = << >> THEN rest ELSE << 0 >> \o rest
         IN  Norm(MagAdd(Norm(MagMulLimb(a, Head(b), 0)), hi, 0))

\* remainder and quotient of a magnitude by a native divisor d > 0
\* (long division from the most significant limb)
RECURSIVE MagRem(_, _)
MagRem(a, d) ==
    IF a = << >> THEN 0 ELSE (MagRem(Tail(a), d) * Base + Head(a)) % d

RECURSIVE MagQuo(_, _)
MagQuo(a, d) ==
    IF a = << >> THEN << >>
    ELSE << (MagRem(Tail(a), d) * Base + Head(a)) \div d >> \o MagQuo(Tail(a), d)

PyZero == [neg |-> FALSE, mag |-> << >>]
PyOne  == [neg |-> FALSE, mag |-> << 1 >>]

PyIsZero(x) == x.mag = << >>

PyMul(x, y) ==
    LET m == MagMul(x.mag, y.mag)
    IN  [neg |-> (m # << >>) /\ (x.neg # y.neg), mag |-> m]

RECURSIVE PyPow(_, _)
PyPow(x, e) == IF e = 0 THEN PyOne ELSE PyMul(x, PyPow(x, e - 1))

\* x % d for d > 0: the result has the sign of the divisor
PyMod(x, d) ==
    LET m == MagRem(x.mag, d)
    IN  IF x.neg /\ m # 0 THEN d - m ELSE m

\* x // d for d > 0: floor division
PyFloorDiv(x, d) ==
    LET qm == Norm(MagQuo(x.mag, d))
        up == IF x.neg /\ MagRem(x.mag, d) # 0
              THEN Norm(MagAdd(qm, << 1 >>, 0)) ELSE qm
    IN  [neg |-> x.neg /\ up # << >>, mag |-> up]

(***************************************************************************)
(* goldbach_scanner_v2.py                                                  *)
(***************************************************************************)
\* bytearray([1]) * k : k ones, empty when k <= 0
ByteArrayOnes(k) == [i \in 0..(k - 1) |-> 1]

\* variant: the index test is lost
InRangeAlways(tab, i) == TRUE

\* a non-negative index is valid iff it is below the length
InRange(tab, i) == i \in DOMAIN tab

SetItem(tab, i, v) == [k \in DOMAIN tab |-> IF k = i THEN v ELSE tab[k]]

\* math.isqrt
Isqrt(k) == CHOOSE s \in 0..k : s * s <= k /\ (s + 1) * (s + 1) > k

\* variant: range(2, isqrt(limit)), one short
SieveLastShort(lim) == Isqrt(lim) - 1

\* range(2, isqrt(limit) + 1): the last value of i
SieveLast(lim) == Isqrt(lim)

\* is_prime[i*i::i] = zeros
StrikeStart(i) == i * i

Strike(tab, i) ==
    [k \in DOMAIN tab |->
        IF k >= StrikeStart(i) /\ (k - StrikeStart(i)) % i = 0 THEN 0 ELSE tab[k]]

\* [i for i, x in enumerate(is_prime) if x]
RECURSIVE PrimesFrom(_, _)
PrimesFrom(tab, i) ==
    IF i \notin DOMAIN tab THEN << >>
    ELSE IF tab[i] # 0 THEN << i >> \o PrimesFrom(tab, i + 1)
    ELSE PrimesFrom(tab, i + 1)

PrimesOf(tab) == PrimesFrom(tab, 0)

\* variant: stop at the half, which counts unordered pairs (the v1 defect)
CountBreakHalf(k, m) == k > m \div 2

\* the break of the counting loop
CountBreak(k, m) == k >= m

\* the test of the counting loop
CountHit(tab, k, m) == k > 1 /\ m - k > 1 /\ tab[m - k] # 0

\* variant: the prime 2 is not excluded
WfSelectsEven(k, t) == k >= 2 /\ t % k = 0

\* the test that selects a prime for the correction
WfSelects(k, t) == k > 2 /\ t % k = 0

\* the test for the remaining cofactor
WfTailSelects(t) == t > 2

classify_orbit(m) ==
    IF m % 6 = 0 THEN "Resonant (mod 6)"
    ELSE IF m % 3 = 0 THEN "Stable (mod 3)"
    ELSE "Generic"

N_test == 15
p_test == 7

\* variant: the difference is not squared
PairTermPlain(a, b) == a - b

\* (roots[i] - roots[j]) ** 2
PairTerm(a, b) == (a - b) * (a - b)

\* variant: range(i + 2, n), adjacent pairs are skipped
InnerStartSkip(i) == i + 2

\* range(i + 1, n): first j
InnerStart(i) == i + 1

\* (2**12) * (p**6) * (q**6) * ((N - p)**4) * (N**4)
ClosedForm(NN, pp) ==
    LET qq == 2 * NN - pp
    IN  PyMul(PyMul(PyMul(PyMul(PyPow(ToPy(2), 12), PyPow(ToPy(pp), 6)),
                          PyPow(ToPy(qq), 6)),
                    PyPow(ToPy(NN - pp), 4)),
              PyPow(ToPy(NN), 4))

Raise(e) == pc' = "raised" /\ err' = e


Idle == [inf |-> FALSE, v |-> 0]

(***************************************************************************)
(* run_project_mirror: one run for a scan range                            *)
(***************************************************************************)
StartSet == { s \in (-MaxNegStart)..MaxStart : s % 2 = 0 }

Init ==
    /\ pc = "main" /\ err = "none" /\ mode = "scan"
    /\ START_2N \in StartSet
    /\ RANGE_SIZE \in 0..MaxRange
    /\ limit = START_2N + RANGE_SIZE
    /\ is_prime = << >> /\ si = 2 /\ primes = << >>
    /\ n = START_2N /\ count = 0 /\ pidx = 1
    /\ factor = RatOne /\ temp = 0 /\ wf_limit = 0 /\ widx = 1 /\ wf = RatOne
    /\ results = << >>
    /\ N = N_test /\ p = p_test /\ q = 2 * N_test - p_test /\ r = 2
    /\ roots = << >> /\ di = 1 /\ dj = 2 /\ disc = PyOne
    /\ formula = PyZero /\ match = FALSE
    /\ ord_n = PyZero /\ ord_d = 2 /\ ord_v = 0 /\ ord_n0 = PyZero
    /\ ord_res = Idle /\ ord_to = "none"
    /\ v_r = Idle /\ v_N = Idle /\ expected = Idle /\ skipped = FALSE
    /\ uresults = {} /\ uniform = FALSE

\* is_prime = bytearray([1]) * (limit + 1)
SieveAlloc ==
    /\ pc = "main"
    /\ is_prime' = ByteArrayOnes(limit + 1)
    /\ pc' = "sieve_clear"
    /\ UNCHANGED << err, mode, cfgVars, si, primes, countVars, wfVars, results,
                    caseVars, discVars, ordVars, v51Vars >>

\* is_prime[0] = is_prime[1] = 0 : targets are assigned left to right
SieveClear ==
    /\ pc = "sieve_clear"
    /\ IF ~InRange(is_prime, 0)
       THEN Raise("IndexError") /\ UNCHANGED << is_prime, si >>
       ELSE IF ~InRange(is_prime, 1)
       THEN /\ Raise("IndexError")
            /\ is_prime' = SetItem(is_prime, 0, 0)
            /\ UNCHANGED si
       ELSE /\ is_prime' = SetItem(SetItem(is_prime, 0, 0), 1, 0)
            /\ IF limit < 0
               THEN Raise("ValueError") /\ UNCHANGED si
               ELSE pc' = "sieve_loop" /\ si' = 2 /\ UNCHANGED err
    /\ UNCHANGED << mode, cfgVars, primes, countVars, wfVars, results,
                    caseVars, discVars, ordVars, v51Vars >>

\* one iteration of: for i in range(2, isqrt(limit) + 1)
SieveStep ==
    /\ pc = "sieve_loop"
    /\ si <= SieveLast(limit)
    /\ is_prime' = IF is_prime[si] # 0 THEN Strike(is_prime, si) ELSE is_prime
    /\ si' = si + 1
    /\ UNCHANGED << pc, err, mode, cfgVars, primes, countVars, wfVars, results,
                    caseVars, discVars, ordVars, v51Vars >>

\* return is_prime
SieveReturn ==
    /\ pc = "sieve_loop"
    /\ si > SieveLast(limit)
    /\ pc' = "sieve_done"
    /\ UNCHANGED << err, mode, cfgVars, sieveVars, countVars, wfVars, results,
                    caseVars, discVars, ordVars, v51Vars >>

\* primes = [i for i, x in enumerate(is_prime) if x]
BuildPrimes ==
    /\ pc = "sieve_done"
    /\ primes' = PrimesOf(is_prime)
    /\ n' = START_2N
    /\ pc' = "scan"
    /\ UNCHANGED << err, mode, cfgVars, is_prime, si, count, pidx, wfVars,
                    results, caseVars, discVars, ordVars, v51Vars >>

\* for n in range(START_2N, END_2N + 2, 2): next n, count = 0
ScanNext ==
    /\ pc = "scan"
    /\ n < limit + 2
    /\ count' = 0
    /\ pidx' = 1
    /\ pc' = "count"
    /\ UNCHANGED << err, mode, cfgVars, sieveVars, n, wfVars, results,
                    caseVars, discVars, ordVars, v51Vars >>

\* one iteration of: for p in primes, not leaving the loop
CountStep ==
    /\ pc = "count"
    /\ pidx <= Len(primes)
    /\ ~CountBreak(primes[pidx], n)
    /\ count' = IF CountHit(is_prime, primes[pidx], n) THEN count + 1 ELSE count
    /\ pidx' = pidx + 1
    /\ UNCHANGED << pc, err, mode, cfgVars, sieveVars, n, wfVars, results,
                    caseVars, discVars, ordVars, v51Vars >>

\* the counting loop ends: primes exhausted, or break on p >= n
CountExit ==
    /\ pc = "count"
    /\ IF pidx > Len(primes) THEN TRUE ELSE CountBreak(primes[pidx], n)
    /\ pc' = "predict"
    /\ UNCHANGED << err, mode, cfgVars, sieveVars, countVars, wfVars, results,
                    caseVars, discVars, ordVars, v51Vars >>

\* log_n = math.log(n); integral = n / (log_n ** 2); wormhole_factor(n, primes)
\* entered: factor = 1.0; temp = n; limit = isqrt(n)
Predict ==
    /\ pc = "predict"
    /\ IF n <= 0
       THEN Raise("ValueError") /\ UNCHANGED wfVars
       ELSE IF n = 1
       THEN Raise("ZeroDivisionError") /\ UNCHANGED wfVars
       ELSE /\ factor' = RatOne
            /\ temp' = n
            /\ wf_limit' = Isqrt(n)
            /\ widx' = 1
            /\ pc' = "wf_loop"
            /\ UNCHANGED << err, wf >>
    /\ UNCHANGED << mode, cfgVars, sieveVars, countVars, results,
                    caseVars, discVars, ordVars, v51Vars >>

\* for p in primes: if p > limit: break; if p > 2 and temp % p == 0: ...
WfNext ==
    /\ pc = "wf_loop"
    /\ widx <= Len(primes)
    /\ primes[widx] <= wf_limit
    /\ IF WfSelects(primes[widx], temp)
       THEN pc' = "wf_mul" /\ UNCHANGED widx
       ELSE pc' = "wf_loop" /\ widx' = widx + 1
    /\ UNCHANGED << err, mode, cfgVars, sieveVars, countVars, factor, temp,
                    wf_limit, wf, results, caseVars, discVars, ordVars, v51Vars >>

\* factor *= (p - 1) / (p - 2)
WfMul ==
    /\ pc = "wf_mul"
    /\ IF primes[widx] - 2 = 0
       THEN Raise("ZeroDivisionError") /\ UNCHANGED factor
       ELSE /\ factor' = RatMul(factor, primes[widx] - 1, primes[widx] - 2)
            /\ pc' = "wf_strip"
            /\ UNCHANGED err
    /\ UNCHANGED << mode, cfgVars, sieveVars, countVars, temp, wf_limit, widx,
                    wf, results, caseVars, discVars, ordVars, v51Vars >>

\* while temp % p == 0: temp //= p
WfStrip ==
    /\ pc = "wf_strip"
    /\ IF temp % primes[widx] = 0
       THEN /\ temp' = temp \div primes[widx]
            /\ UNCHANGED << pc, widx >>
       ELSE /\ pc' = "wf_loop"
            /\ widx' = widx + 1
            /\ UNCHANGED temp
    /\ UNCHANGED << err, mode, cfgVars, sieveVars, countVars, factor, wf_limit,
                    wf, results, caseVars, discVars, ordVars, v51Vars >>

\* the loop over primes ends (exhausted, or p > limit); if temp > 2: ...
WfTail ==
    /\ pc = "wf_loop"
    /\ IF widx > Len(primes) THEN TRUE ELSE primes[widx] > wf_limit
    /\ pc' = IF WfTailSelects(temp) THEN "wf_tail_mul" ELSE "wf_ret"
    /\ UNCHANGED << err, mode, cfgVars, sieveVars, countVars, wfVars, results,
                    caseVars, discVars, ordVars, v51Vars >>

\* factor *= (temp - 1) / (temp - 2)
WfTailMul ==
    /\ pc = "wf_tail_mul"
    /\ IF temp - 2 = 0
       THEN Raise("ZeroDivisionError") /\ UNCHANGED factor
       ELSE /\ factor' = RatMul(factor, temp - 1, temp - 2)
            /\ pc' = "wf_ret"
            /\ UNCHANGED err
    /\ UNCHANGED << mode, cfgVars, sieveVars, countVars, temp, wf_limit, widx,
                    wf, results, caseVars, discVars, ordVars, v51Vars >>

\* return factor; orbit = classify_orbit(n); results.append(...); next n
WfReturn ==
    /\ pc = "wf_ret"
    /\ wf' = factor
    /\ results' = Append(results, [n |-> n, count |-> count, wf |-> factor,
                                   orbit |-> classify_orbit(n)])
    /\ n' = n + 2
    /\ pc' = "scan"
    /\ UNCHANGED << err, mode, cfgVars, sieveVars, count, pidx, factor, temp,
                    wf_limit, widx, caseVars, discVars, ordVars, v51Vars >>

\* the scan is over: roots = [0, p_test, -p_test, 2*N_test - p_test, ...]
ScanEnd ==
    /\ pc = "scan"
    /\ n >= limit + 2
    /\ roots' = << 0, p, -p, 2 * N - p, -(2 * N - p) >>
    /\ disc' = PyOne
    /\ di' = 1
    /\ dj' = InnerStart(1)
    /\ pc' = "disc_loop"
    /\ UNCHANGED << err, mode, cfgVars, sieveVars, countVars, wfVars, results,
                    caseVars, formula, match, ordVars, v51Vars >>

(***************************************************************************)
(* compute_discriminant (and the same loop inlined in run_project_mirror)  *)
(***************************************************************************)
\* one step of: for i in range(n): for j in range(i + 1, n): disc *= ...
DiscStep ==
    /\ pc = "disc_loop"
    /\ di <= Len(roots)
    /\ IF dj <= Len(roots)
       THEN /\ disc' = PyMul(disc, ToPy(PairTerm(roots[di], roots[dj])))
            /\ dj' = dj + 1
            /\ UNCHANGED di
       ELSE /\ di' = di + 1
            /\ dj' = InnerStart(di + 1)
            /\ UNCHANGED disc
    /\ UNCHANGED << pc, err, mode, cfgVars, sieveVars, countVars, wfVars,
                    results, caseVars, roots, formula, match, ordVars, v51Vars >>

\* the inline check of the scanner: predicted_disc, disc == predicted_disc
DiscCompare ==
    /\ pc = "disc_loop"
    /\ di > Len(roots)
    /\ mode \in {"scan", "thm32"}
    /\ formula' = ClosedForm(N, p)
    /\ match' = (disc = formula')
    /\ pc' = "done"
    /\ UNCHANGED << err, mode, cfgVars, sieveVars, countVars, wfVars, results,
                    caseVars, roots, di, dj, disc, ordVars, v51Vars >>

Next ==
    \/ SieveAlloc \/ SieveClear \/ SieveStep \/ SieveReturn \/ BuildPrimes
    \/ ScanNext \/ CountStep \/ CountExit \/ Predict
    \/ WfNext \/ WfMul \/ WfStrip \/ WfTail \/ WfTailMul \/ WfReturn
    \/ ScanEnd \/ DiscStep \/ DiscCompare

Spec == Init /\ [][Next]_vars


(***************************************************************************)
(* verify_discriminant.py: one test case (N, p, r) of one of the three     *)
(* verification loops                                                      *)
(***************************************************************************)
\* float('inf')
Inf == [inf |-> TRUE, v |-> 0]

Fin(k) == [inf |-> FALSE, v |-> k]

\* 4 * v, with 4 * inf = inf
Times4(x) == IF x.inf THEN Inf ELSE Fin(4 * x.v)

\* if n == 0
OrdIsZero(x) == PyIsZero(x)

\* variant: while n > 0 and n % p == 0
OrdLoopCondPositive(x, d) == ~x.neg /\ PyMod(x, d) = 0

\* while n % p == 0
OrdLoopCond(x, d) == PyMod(x, d) = 0

\* if p % r == 0 or q % r == 0 or (N - p) % r == 0
HypothesisViolated(pp, qq, NN, rr) ==
    pp % rr = 0 \/ qq % rr = 0 \/ (NN - pp) % rr = 0

NSet == (-MaxNegN)..MaxN
PSet == (-MaxNegP)..MaxP
RSet == 2..MaxR

InitVerify ==
    /\ pc = "v_case" /\ err = "none"
    /\ mode \in {"thm32", "thm51", "uniform"}
    /\ N \in NSet
    /\ p \in IF mode = "uniform" THEN {0} ELSE PSet
    /\ r \in IF mode = "thm32" THEN {2} ELSE RSet
    /\ q = 0
    /\ START_2N = 0 /\ RANGE_SIZE = 0 /\ limit = 0
    /\ is_prime = << >> /\ si = 2 /\ primes = << >>
    /\ n = 0 /\ count = 0 /\ pidx = 1
    /\ factor = RatOne /\ temp = 0 /\ wf_limit = 0 /\ widx = 1 /\ wf = RatOne
    /\ results = << >>
    /\ roots = << >> /\ di = 1 /\ dj = 2 /\ disc = PyOne
    /\ formula = PyZero /\ match = FALSE
    /\ ord_n = PyZero /\ ord_d = 2 /\ ord_v = 0 /\ ord_n0 = PyZero
    /\ ord_res = Idle /\ ord_to = "none"
    /\ v_r = Idle /\ v_N = Idle /\ expected = Idle /\ skipped = FALSE
    /\ uresults = {} /\ uniform = FALSE

scanVars == << cfgVars, sieveVars, countVars, wfVars, results >>

\* compute_discriminant(roots) is entered: disc = 1
CallDisc ==
    /\ roots' = << 0, p', -p', q', -q' >>
    /\ disc' = PyOne
    /\ di' = 1
    /\ dj' = InnerStart(1)
    /\ pc' = "disc_loop"

\* verify_theorem_3_2: q = 2 * N - p; roots = [0, p, -p, q, -q]
V32Begin ==
    /\ pc = "v_case" /\ mode = "thm32"
    /\ q' = 2 * N - p
    /\ UNCHANGED << N, p, r >>
    /\ CallDisc
    /\ UNCHANGED << err, mode, scanVars, formula, match, ordVars, v51Vars >>

\* verify_theorem_5_1: the hypothesis check, then compute_discriminant
V51Begin ==
    /\ pc = "v_case" /\ mode = "thm51"
    /\ q' = 2 * N - p
    /\ UNCHANGED << N, p, r >>
    /\ IF HypothesisViolated(p, q', N, r)
       THEN /\ skipped' = TRUE
            /\ pc' = "done"
            /\ UNCHANGED << roots, disc, di, dj >>
       ELSE /\ CallDisc
            /\ UNCHANGED skipped
    /\ UNCHANGED << err, mode, scanVars, formula, match, ordVars,
                    v_r, v_N, expected, uresults, uniform >>

\* verify_conduit_uniformity: for p in range(3, 2 * N, 2)
UBegin ==
    /\ pc = "v_case" /\ mode = "uniform"
    /\ p' = 3
    /\ pc' = "u_loop"
    /\ UNCHANGED << err, mode, scanVars, N, q, r, discVars, ordVars, v51Vars >>

\* one iteration: the two continue tests, then compute_discriminant
UStep ==
    /\ pc = "u_loop"
    /\ p < 2 * N
    /\ q' = 2 * N - p
    /\ UNCHANGED << N, r >>
    /\ IF p <= 1 \/ q' <= 1 \/ HypothesisViolated(p, q', N, r)
       THEN /\ p' = p + 2
            /\ UNCHANGED << pc, roots, disc, di, dj >>
       ELSE /\ UNCHANGED p
            /\ CallDisc
    /\ UNCHANGED << err, mode, scanVars, formula, match, ordVars, v51Vars >>

\* vals = set(v for _, v in results); uniform = len(vals) == 1
UEnd ==
    /\ pc = "u_loop"
    /\ p >= 2 * N
    /\ uniform' = (Cardinality({ x[2] : x \in uresults }) = 1)
    /\ pc' = "done"
    /\ UNCHANGED << err, mode, scanVars, caseVars, discVars, ordVars,
                    v_r, v_N, expected, skipped, uresults >>

\* compute_discriminant returns; ord_p(disc, r) is entered
DiscReturn ==
    /\ pc = "disc_loop"
    /\ di > Len(roots)
    /\ mode \in {"thm51", "uniform"}
    /\ ord_n' = disc
    /\ ord_n0' = disc
    /\ ord_d' = r
    /\ ord_to' = IF mode = "thm51" THEN "v_r" ELSE "u_v"
    /\ pc' = "ord_entry"
    /\ UNCHANGED << err, mode, scanVars, caseVars, discVars, ord_v, ord_res,
                    v51Vars >>

\* ord_p: if n == 0: return float('inf'); v = 0
OrdEntry ==
    /\ pc = "ord_entry"
    /\ IF OrdIsZero(ord_n)
       THEN ord_res' = Inf /\ pc' = "ord_ret" /\ UNCHANGED ord_v
       ELSE ord_v' = 0 /\ pc' = "ord_loop" /\ UNCHANGED ord_res
    /\ UNCHANGED << err, mode, scanVars, caseVars, discVars, ord_n, ord_d,
                    ord_n0, ord_to, v51Vars >>

\* ord_p: one iteration of the loop: v += 1; n //= p
OrdStep ==
    /\ pc = "ord_loop"
    /\ OrdLoopCond(ord_n, ord_d)
    /\ ord_v' = ord_v + 1
    /\ ord_n' = PyFloorDiv(ord_n, ord_d)
    /\ UNCHANGED << pc, err, mode, scanVars, caseVars, discVars, ord_d, ord_n0,
                    ord_res, ord_to, v51Vars >>

\* ord_p: the loop ends; return v
OrdExit ==
    /\ pc = "ord_loop"
    /\ ~OrdLoopCond(ord_n, ord_d)
    /\ ord_res' = Fin(ord_v)
    /\ pc' = "ord_ret"
    /\ UNCHANGED << err, mode, scanVars, caseVars, discVars, ord_n, ord_d,
                    ord_v, ord_n0, ord_to, v51Vars >>

\* v_r = ord_p(disc, r) is assigned; ord_p(N, r) is entered
RetVr ==
    /\ pc = "ord_ret" /\ ord_to = "v_r"
    /\ v_r' = ord_res
    /\ ord_n' = ToPy(N)
    /\ ord_n0' = ToPy(N)
    /\ ord_d' = r
    /\ ord_to' = "v_N"
    /\ pc' = "ord_entry"
    /\ UNCHANGED << err, mode, scanVars, caseVars, discVars, ord_v, ord_res,
                    v_N, expected, skipped, uresults, uniform >>

\* v_N = ord_p(N, r); expected = 4 * v_N; match = v_r == expected
RetVN ==
    /\ pc = "ord_ret" /\ ord_to = "v_N"
    /\ v_N' = ord_res
    /\ expected' = Times4(ord_res)
    /\ match' = (v_r = Times4(ord_res))
    /\ pc' = "done"
    /\ UNCHANGED << err, mode, scanVars, caseVars, roots, di, dj, disc,
                    formula, ordVars, v_r, skipped, uresults, uniform >>

\* v = ord_p(disc, r); results.append((p, v)); next p
RetUniform ==
    /\ pc = "ord_ret" /\ ord_to = "u_v"
    /\ uresults' = uresults \cup { << p, ord_res >> }
    /\ p' = p + 2
    /\ pc' = "u_loop"
    /\ UNCHANGED << err, mode, scanVars, N, q, r, discVars, ordVars,
                    v_r, v_N, expected, skipped, uniform >>

NextVerify ==
    \/ V32Begin \/ V51Begin \/ UBegin \/ UStep \/ UEnd
    \/ DiscStep \/ DiscCompare \/ DiscReturn
    \/ OrdEntry \/ OrdStep \/ OrdExit
    \/ RetVr \/ RetVN \/ RetUniform

SpecVerify == InitVerify /\ [][NextVerify]_vars

\* ord_p runs in one sequential process: once entered, its next step is taken
FairVerify == SpecVerify /\ WF_vars(OrdEntry \/ OrdStep \/ OrdExit)


(***************************************************************************)
(* Properties                                                              *)
(***************************************************************************)
EvenTarget == n % 2 = 0 /\ n >= 4

\* C1: for every even n >= 4, wormhole_factor(n, primes) returns the product,
\* once per distinct odd prime k dividing n/2, of (k-1)/(k-2), as an exact
\* rational.
C1_FactorIsSingularSeries ==
    (pc = "wf_ret" /\ EvenTarget) => factor = SingularSeries(n)

\* C2: for every even n >= 4 whose half is a power of two, wormhole_factor
\* returns exactly 1.
C2_PowerOfTwoGivesOne ==
    (pc = "wf_ret" /\ EvenTarget /\ IsPow2(n \div 2)) => factor = RatOne

OrderedPairs(m) == { k \in 2..(m - 1) : IsPrime(k) /\ IsPrime(m - k) }

LowerPairs(m) == { k \in OrderedPairs(m) : k < m - k }

\* C3: for every even n with 4 <= n <= limit the counting loop ends with
\* count = the number of primes k, 2 <= k < n, with n - k prime: two per pair
\* of distinct primes and one for the self-pair n/2, so count is odd exactly
\* when n/2 is prime, and count = 0 only if n has no prime-pair decomposition.
C3_OrderedCount ==
    (pc = "predict" /\ EvenTarget /\ n <= limit) =>
        /\ count = Cardinality(OrderedPairs(n))
        /\ count = 2 * Cardinality(LowerPairs(n))
                   + (IF IsPrime(n \div 2) THEN 1 ELSE 0)
        /\ (count % 2 = 1) <=> IsPrime(n \div 2)
        /\ (count = 0) => ~ \E k \in 2..(n - 1) : IsPrime(k) /\ IsPrime(n - k)

C3_Witness ==
    /\ pc = "predict" /\ n = 10 /\ n <= limit /\ count = 3
    /\ \E i \in 1..Len(primes) : primes[i] >= n

\* C4: for every N and p with p # 0 and p # 2N, the discriminant of
\* [0, p, -p, q, -q], q = 2N - p, equals 2^12 p^6 q^6 (N-p)^4 N^4 as an exact
\* integer.
C4_DiscriminantClosedForm ==
    (pc = "done" /\ mode = "thm32" /\ p # 0 /\ p # 2 * N) =>
        /\ disc = ClosedForm(N, p)
        /\ match

C4_Witness ==
    /\ pc = "done" /\ mode = "thm32" /\ N = 9 /\ p = 7
    /\ Len(disc.mag) > 4
    /\ match

\* C5 as stated: for 0 < p < 2N and any prime r not dividing p q (N-p),
\* ord_p(disc, r) = 4 * ord_p(N, r).
C5_AnyPrime ==
    (pc = "done" /\ mode = "thm51" /\ ~skipped /\ 0 < p /\ p < 2 * N
        /\ IsPrime(r)) => v_r = Times4(v_N)

\* C5 amended: for 0 < p < 2N and any ODD prime r not dividing p q (N-p),
\* ord_p(disc, r) = 4 * ord_p(N, r), both being the r-adic valuation; and for
\* fixed N and odd prime r the valuation collected by the uniformity loop is
\* that same value for every p.
C5_OddPrime ==
    /\ (pc = "done" /\ mode = "thm51" /\ ~skipped /\ 0 < p /\ p < 2 * N
           /\ IsPrime(r) /\ r > 2) =>
          /\ v_N = Fin(Valuation(N, r))
          /\ v_r = Fin(4 * Valuation(N, r))
          /\ v_r = Times4(v_N)
          /\ match
    /\ (mode = "uniform" /\ IsPrime(r) /\ r > 2) =>
          \A x \in uresults : x[2] = Fin(4 * Valuation(N, r))

C5_Witness ==
    /\ pc = "done" /\ mode = "thm51" /\ ~skipped
    /\ N = 9 /\ r = 3 /\ 0 < p /\ p < 2 * N
    /\ v_N = Fin(2) /\ v_r = Fin(8)

Marked(tab) == { i \in DOMAIN tab : tab[i] = 1 }

\* C6: for limit >= 1 the sieve returns a table over 0..limit whose entries 0
\* and 1 are 0 and whose entry i >= 2 is 1 iff i is prime; for limit < 2 no
\* entry is 1; for limit = 30 the marked indices are exactly the ten primes
\* up to 29.
C6_SieveTable ==
    (pc = "sieve_done" /\ limit >= 1) =>
        /\ DOMAIN is_prime = 0..limit
        /\ is_prime[0] = 0 /\ is_prime[1] = 0
        /\ \A i \in 2..limit : is_prime[i] \in {0, 1}
                               /\ (is_prime[i] = 1 <=> IsPrime(i))
        /\ (limit < 2) => Marked(is_prime) = {}
        /\ (limit = 30) =>
              Marked(is_prime) = {2, 3, 5, 7, 11, 13, 17, 19, 23, 29}

C6_Witness ==
    pc = "sieve_done" /\ limit = 30 /\ Cardinality(Marked(is_prime)) = 10

\* C7: ord_p(n, p), p >= 2: for n = 0 it returns the infinite sentinel
\* without an iteration of the loop; for n # 0, of either sign, the loop
\* terminates and returns the v >= 0 with p^v | n and p^(v+1) not dividing n.
C7_OrdContract ==
    /\ [][(pc = "ord_entry" /\ PyIsZero(ord_n)) =>
            (pc' = "ord_ret" /\ ord_res' = Inf /\ ord_v' = ord_v)]_vars
    /\ [](pc = "ord_ret" /\ ~PyIsZero(ord_n0) =>
            /\ ~ord_res.inf
            /\ ord_res.v >= 0
            /\ PyMul(PyPow(ToPy(ord_d), ord_res.v), ord_n) = ord_n0
            /\ PyMod(ord_n, ord_d) # 0)
    /\ (pc = "ord_entry") ~> (pc = "ord_ret")

C7_Witness ==
    /\ pc = "ord_ret" /\ ord_n0.neg /\ ord_res = Fin(1) /\ ord_d >= 2

\* C8: in wormhole_factor, for every even n >= 4, every division has a
\* strictly positive divisor: p - 2 > 0 for each prime used in the loop and
\* temp - 2 > 0 for the remaining cofactor.
C8_PositiveDivisors ==
    EvenTarget =>
        /\ (pc = "wf_mul") => primes[widx] - 2 > 0
        /\ (pc = "wf_tail_mul") => temp - 2 > 0
        /\ err # "ZeroDivisionError"

C8_Witness ==
    pc = "wf_mul" /\ EvenTarget /\ primes[widx] = 3 /\ temp = n

\* C9: the sieve called with a zero or negative limit raises an error at the
\* clearing of entries 0 and 1 and never returns a table.
C9_NonPositiveLimitRaises ==
    (mode = "scan" /\ limit <= 0) =>
        /\ pc \in {"main", "sieve_clear", "raised"}
        /\ (pc = "raised") => err = "IndexError"
        /\ primes = << >> /\ results = << >>

C9_Witness ==
    pc = "raised" /\ limit = 0 /\ err = "IndexError" /\ DOMAIN is_prime = {0}

\* C10: for every even n >= 4, the cofactor folded in by the final step of
\* wormhole_factor is a single prime greater than 2 that divides n/2.
C10_TailIsOddPrime ==
    (pc = "wf_tail_mul" /\ EvenTarget) =>
        temp > 2 /\ IsPrime(temp) /\ (n \div 2) % temp = 0

====
